---- MODULE Spec2Model ----
(***************************************************************************)
(* Model of photo_evidence.py: a folder of photographs is turned into a    *)
(* chronological table.  Python strings are modelled as sequences of text  *)
(* fragments (a file name is a sequence of characters, a fixed literal is  *)
(* one fragment), floats as exact signed magnitudes or NaN, and every      *)
(* answer of the file system, of Pillow and of the geocoding service is an *)
(* input drawn from a small set.                                           *)
(***************************************************************************)
EXTENDS Integers, Sequences, FiniteSets, TLC

VARIABLES pc, folder, photos, idx, photo_info_list, rows, log, call

vars == <<pc, folder, photos, idx, photo_info_list, rows, log, call>>

\* ---- bounds of the model ------------------------------------------------
MaxFiles == 2      \* entries of the folder in a run of main
MaxList == 2       \* entries of a listing given to the extension filter
MaxNum == 0        \* numerators 0..MaxNum of GPS rationals (besides 30, 41)
MaxDay == 2        \* capture days 1..MaxDay of the date strings

\* ---- helpers on sequences -------------------------------------------------
Range(s) == {s[i] : i \in 1..Len(s)}

SeqsUpTo(S, n) == UNION {[1..k -> S] : k \in 0..n}

Tail_n(s, n) == SubSeq(s, Len(s) - n + 1, Len(s))

\* ---- str.lower / str.endswith ---------------------------------------------
UpperChars == <<"J", "P", "E", "G", "H", "I", "C", "F">>

LowerChars == <<"j", "p", "e", "g", "h", "i", "c", "f">>

LowerChar(c) ==
    IF \E i \in 1..Len(UpperChars) : UpperChars[i] = c
    THEN LowerChars[CHOOSE i \in 1..Len(UpperChars) : UpperChars[i] = c]
    ELSE c

UpperChar(c) ==
    IF \E i \in 1..Len(LowerChars) : LowerChars[i] = c
    THEN UpperChars[CHOOSE i \in 1..Len(LowerChars) : LowerChars[i] = c]
    ELSE c

Lower(s) == [i \in 1..Len(s) |-> LowerChar(s[i])]

Upper(s) == [i \in 1..Len(s) |-> UpperChar(s[i])]

EndsWith(s, suffix) ==
    /\ Len(suffix) <= Len(s)
    /\ Tail_n(s, Len(suffix)) = suffix

SUPPORTED_FORMATS ==
    << <<".", "j", "p", "g">>, <<".", "j", "p", "e", "g">>,
       <<".", "J", "P", "G">>, <<".", "J", "P", "E", "G">>,
       <<".", "h", "e", "i", "c">>, <<".", "H", "E", "I", "F">>,
       <<".", "h", "e", "i", "f">> >>

EndsWithAny(s, suffixes) == \E i \in 1..Len(suffixes) : EndsWith(s, suffixes[i])

\* faulty variant: the name is compared as it is spelled, without f.lower()
IsSupported_exact(f) == EndsWithAny(f, SUPPORTED_FORMATS)

\* f.lower().endswith(SUPPORTED_FORMATS)
IsSupported(f) == EndsWithAny(Lower(f), SUPPORTED_FORMATS)

\* [join(folder, f) for f in listdir(folder) if f.lower().endswith(...)]
RECURSIVE SelectPhotos(_)
SelectPhotos(entries) ==
    IF entries = <<>> THEN <<>>
    ELSE IF IsSupported(Head(entries).name)
         THEN <<Head(entries)>> \o SelectPhotos(Tail(entries))
         ELSE SelectPhotos(Tail(entries))

\* ---- floats and EXIF rationals ----------------------------------------------
\* a float is NaN or the exact signed value (-1)^neg * num / den
NaN == [nan |-> TRUE, neg |-> FALSE, num |-> 0, den |-> 1]

Float(neg, num, den) == [nan |-> FALSE, neg |-> neg, num |-> num, den |-> den]

\* a component of a GPS value: an IFDRational num/den (NaN when den = 0) or
\* a piece of text, which no arithmetic accepts
Rat(n, d) == [kind |-> "rat", num |-> n, den |-> d]

TextComp == [kind |-> "text", num |-> 0, den |-> 1]

RECURSIVE GCD(_, _)
GCD(a, b) == IF b = 0 THEN a ELSE GCD(b, a % b)

\* nearest integer to a / b, ties to the even one (Python's round)
RoundHalfEven(a, b) ==
    LET q == a \div b
        r == a % b
    IN  IF 2 * r < b THEN q
        ELSE IF 2 * r > b THEN q + 1
        ELSE IF q % 2 = 0 THEN q ELSE q + 1

\* round(x, 6): the result counts millionths; the sign and NaN are kept
Round6(x) ==
    IF x.nan THEN NaN
    ELSE LET g == GCD(1000000, x.den)
         IN  Float(x.neg, RoundHalfEven(x.num * (1000000 \div g), x.den \div g), 1000000)

\* -x
Neg(x) == IF x.nan THEN NaN ELSE Float(~x.neg, x.num, x.den)

\* ---- get_gps_location ---------------------------------------------------------
\* "d, m, s = value" and the divisions raise for a value that is not a triple
\* of numbers
ConvertRaises(value) ==
    \/ Len(value) # 3
    \/ \E i \in 1..Len(value) : value[i].kind = "text"

\* faulty variant: the seconds are divided by 60 as the minutes are
convert_to_degrees_sec60(value) ==
    LET d == value[1]
        m == value[2]
        s == value[3]
    IN  IF d.den = 0 \/ m.den = 0 \/ s.den = 0 THEN NaN
        ELSE Float(FALSE,
                   d.num * 3600 * m.den * s.den + m.num * 60 * d.den * s.den
                     + s.num * 60 * d.den * m.den,
                   3600 * d.den * m.den * s.den)

\* d + (m / 60.0) + (s / 3600.0), for a value that does not raise
convert_to_degrees(value) ==
    LET d == value[1]
        m == value[2]
        s == value[3]
    IN  IF d.den = 0 \/ m.den = 0 \/ s.den = 0 THEN NaN
        ELSE Float(FALSE,
                   d.num * 3600 * m.den * s.den + m.num * 60 * d.den * s.den
                     + s.num * d.den * m.den,
                   3600 * d.den * m.den * s.den)

Absent == [present |-> FALSE, val |-> <<>>]

Present(v) == [present |-> TRUE, val |-> v]

NoCoords == [none |-> TRUE, lat |-> NaN, lon |-> NaN, warned |-> FALSE]

get_gps_location(gps_data) ==
    IF ~gps_data.GPSLatitude.present \/ ~gps_data.GPSLongitude.present
    THEN NoCoords
    ELSE IF \/ ConvertRaises(gps_data.GPSLatitude.val)
            \/ ConvertRaises(gps_data.GPSLongitude.val)
         THEN [NoCoords EXCEPT !.warned = TRUE]
         ELSE LET lat0 == convert_to_degrees(gps_data.GPSLatitude.val)
                  lon0 == convert_to_degrees(gps_data.GPSLongitude.val)
                  lat == IF gps_data.GPSLatitudeRef # "N" THEN Neg(lat0) ELSE lat0
                  lon == IF gps_data.GPSLongitudeRef # "E" THEN Neg(lon0) ELSE lon0
              IN  [none |-> FALSE, lat |-> Round6(lat), lon |-> Round6(lon),
                   warned |-> FALSE]

\* the GPS values and fragments the model draws from
NumVals == (0..MaxNum) \cup {30, 41}

Components == {Rat(n, 1) : n \in NumVals} \cup {Rat(0, 0), TextComp}

CoordValues ==
    {Absent, Present(<<Rat(0, 1), Rat(0, 1)>>)}
      \cup {Present(t) : t \in [1..3 -> Components]}

GpsFragments ==
    [GPSLatitude : CoordValues, GPSLatitudeRef : {"absent", "N", "S"},
     GPSLongitude : CoordValues, GPSLongitudeRef : {"absent", "E", "W"}]

EmptyGps ==
    [GPSLatitude |-> Absent, GPSLatitudeRef |-> "absent",
     GPSLongitude |-> Absent, GPSLongitudeRef |-> "absent"]

\* ---- get_address_from_coords --------------------------------------------------
Digits == <<"0", "1", "2", "3", "4", "5", "6", "7", "8", "9">>

Digit(n) == Digits[n + 1]

RECURSIVE IntDigits(_)
IntDigits(n) ==
    IF n < 10 THEN <<Digit(n)>> ELSE IntDigits(n \div 10) \o <<Digit(n % 10)>>

Pow10(k) == IF k = 0 THEN 1 ELSE IF k = 1 THEN 10 ELSE IF k = 2 THEN 100
            ELSE IF k = 3 THEN 1000 ELSE IF k = 4 THEN 10000 ELSE 100000

\* format(x, ".6f")
FormatFixed6(x) ==
    IF x.nan THEN <<"n", "a", "n">>
    ELSE LET r == Round6(x)
             whole == r.num \div 1000000
             frac == r.num % 1000000
         IN  (IF r.neg THEN <<"-">> ELSE <<>>)
               \o IntDigits(whole) \o <<".">>
               \o [i \in 1..6 |-> Digit((frac \div Pow10(6 - i)) % 10)]

\* f"{lat:.6f}, {lon:.6f}"
CoordText(lat, lon) == FormatFixed6(lat) \o <<",", " ">> \o FormatFixed6(lon)

\* the answers of geolocator.reverse: a location with an address, None, or an
\* exception (time-out, network or service error)
GeoReplies ==
    {[kind |-> "address", address |-> <<"ul. Lenina, 1">>],
     [kind |-> "none", address |-> <<>>],
     [kind |-> "timeout", address |-> <<>>],
     [kind |-> "error", address |-> <<>>]}

\* faulty variant: a missing result is not caught and its text is returned
get_address_from_coords_none(lat, lon, reply) ==
    IF reply.kind \in {"timeout", "error"}
    THEN [text |-> CoordText(lat, lon), lookups |-> 1]
    ELSE IF reply.kind = "none"
         THEN [text |-> <<"None">>, lookups |-> 1]
         ELSE [text |-> reply.address, lookups |-> 1]

\* one call of geolocator.reverse; an exception of the call, or of
\* location.address on None, gives the formatted pair
get_address_from_coords(lat, lon, reply) ==
    IF reply.kind \in {"timeout", "error"}
    THEN [text |-> CoordText(lat, lon), lookups |-> 1]
    ELSE IF reply.kind = "none"
         THEN [text |-> CoordText(lat, lon), lookups |-> 1]
         ELSE [text |-> reply.address, lookups |-> 1]

\* the coordinates the resolver is applied to: rounded conversions of both signs
CoordFloats ==
    {NaN} \cup
    UNION {{Round6(convert_to_degrees(t)), Round6(Neg(convert_to_degrees(t)))} :
             t \in [1..3 -> {Rat(n, 1) : n \in NumVals}]}

\* ---- EXIF tag values and datetime.strptime -----------------------------------
\* a tag value: absent (None), a str, bytes or a number; text is the sequence
\* of its characters
NoValue == [kind |-> "absent", text |-> <<>>]

StrValue(t) == [kind |-> "str", text |-> t]

BytesValue(t) == [kind |-> "bytes", text |-> t]

IntValue == [kind |-> "int", text |-> <<"7">>]

\* value.decode('utf-8', errors='ignore') for bytes, the value itself otherwise
Decode(value) == IF value.kind = "bytes" THEN StrValue(value.text) ELSE value

\* bool(value): None and the empty string are false (the number is 7)
Truthy(value) ==
    /\ value.kind # "absent"
    /\ value.kind \in {"str", "bytes"} => value.text # <<>>

IsDigit(c) == \E i \in 1..10 : Digits[i] = c

DigitVal(c) == (CHOOSE i \in 1..10 : Digits[i] = c) - 1

TwoDigits(t, i) == 10 * DigitVal(t[i]) + DigitVal(t[i + 1])

DaysIn(y, m) ==
    IF m = 2 THEN (IF y % 4 = 0 /\ (y % 100 # 0 \/ y % 400 = 0) THEN 29 ELSE 28)
    ELSE IF m \in {4, 6, 9, 11} THEN 30 ELSE 31

NoDate == <<0, 0, 0, 0, 0, 0>>

\* datetime.strptime(value, "%Y:%m:%d %H:%M:%S") on zero-padded fields: a
\* value that is not a str, does not match, or names no date raises
strptime(value) ==
    LET t == value.text
        shaped == /\ value.kind = "str"
                  /\ Len(t) = 19
                  /\ t[5] = ":" /\ t[8] = ":" /\ t[11] = " "
                  /\ t[14] = ":" /\ t[17] = ":"
                  /\ \A i \in (1..19) \ {5, 8, 11, 14, 17} : IsDigit(t[i])
        y == 100 * TwoDigits(t, 1) + TwoDigits(t, 3)
        mo == TwoDigits(t, 6)
        d == TwoDigits(t, 9)
        h == TwoDigits(t, 12)
        mi == TwoDigits(t, 15)
        sec == TwoDigits(t, 18)
    IN  IF shaped /\ y >= 1 /\ mo \in 1..12 /\ d \in 1..DaysIn(y, mo)
             /\ h <= 23 /\ mi <= 59 /\ sec <= 59
        THEN [ok |-> TRUE, value |-> <<y, mo, d, h, mi, sec>>]
        ELSE [ok |-> FALSE, value |-> NoDate]

\* the order of datetime values
RECURSIVE LexLess(_, _)
LexLess(a, b) ==
    IF a = <<>> THEN FALSE
    ELSE IF Head(a) # Head(b) THEN Head(a) < Head(b)
    ELSE LexLess(Tail(a), Tail(b))

\* the date strings of the model: "2024<sep>MM<sep>DD 10:00:00"
MkDate(mo, d, sep) ==
    <<"2", "0", "2", "4", sep, Digit(mo \div 10), Digit(mo % 10), sep,
      Digit(d \div 10), Digit(d % 10), " ", "1", "0", ":", "0", "0", ":", "0", "0">>

DateTagValues ==
    {NoValue, StrValue(<<>>), IntValue, BytesValue(MkDate(1, 1, ":")),
     StrValue(MkDate(13, 1, ":")), StrValue(MkDate(1, 1, "-"))}
      \cup {StrValue(MkDate(1, d, ":")) : d \in 1..MaxDay}

\* ---- extract_image_info -------------------------------------------------------
COORDS_UNAVAILABLE == <<"Koordinaty nedostupny">>

MODEL_UNKNOWN == <<"Model' neizvestna">>

Ev(op, path) == [op |-> op, path |-> path]

NoInfo ==
    [image |-> <<>>, date_taken |-> NoDate, address |-> <<>>, camera_model |-> <<>>]

Ret(outcome, info, events) == [outcome |-> outcome, info |-> info, events |-> events]

\* faulty variant: DateTime is preferred to DateTimeOriginal
SelectDateStr_swapped(exif_data) ==
    IF Truthy(exif_data.DateTime) THEN exif_data.DateTime
    ELSE exif_data.DateTimeOriginal

\* exif_data.get("DateTimeOriginal") or exif_data.get("DateTime")
SelectDateStr(exif_data) ==
    IF Truthy(exif_data.DateTimeOriginal) THEN exif_data.DateTimeOriginal
    ELSE exif_data.DateTime

\* the tags read by the loop over exif, bytes decoded
ExifData(file) ==
    [DateTimeOriginal |-> Decode(file.DateTimeOriginal),
     DateTime |-> Decode(file.DateTime),
     Model |-> Decode(file.Model)]

\* exif.get_ifd(0x8825) under its try: an exception leaves no GPS fields
GpsData(file) == IF file.gps.raises THEN EmptyGps ELSE file.gps.data

\* one call for the file at a path, given what opening and reading it answer.
\* outcome "none" is "return None", "record" the dictionary, "raise" an
\* exception that leaves the function
extract_image_info(file) ==
    LET opened == <<Ev("open", file.name)>>
    IN  IF file.open = "raise" THEN Ret("none", NoInfo, opened)
        ELSE IF file.getexif = "raise" THEN Ret("raise", NoInfo, opened)
        ELSE IF file.getexif = "empty" THEN Ret("none", NoInfo, opened)
        ELSE IF file.tagread = "raise" THEN Ret("raise", NoInfo, opened)
        ELSE
          LET exif_data == ExifData(file)
              gps_data == GpsData(file)
              date_str == SelectDateStr(exif_data)
              parsed == strptime(date_str)
          IN  IF ~Truthy(date_str) THEN Ret("none", NoInfo, opened)
              ELSE IF ~parsed.ok THEN Ret("none", NoInfo, opened)
              ELSE
                LET coords == get_gps_location(gps_data)
                    resolved == get_address_from_coords(coords.lat, coords.lon,
                                                        file.geocode)
                    address == IF coords.none THEN COORDS_UNAVAILABLE
                               ELSE resolved.text
                    events == IF coords.none THEN opened
                              ELSE opened \o [i \in 1..resolved.lookups |->
                                                Ev("geocode", file.name)]
                    camera_model == IF exif_data.Model.kind = "absent"
                                    THEN MODEL_UNKNOWN ELSE exif_data.Model.text
                IN  IF file.copy = "raise" THEN Ret("raise", NoInfo, events)
                    ELSE Ret("record",
                             [image |-> file.name, date_taken |-> parsed.value,
                              address |-> address, camera_model |-> camera_model],
                             events)

\* ---- what a file can answer ---------------------------------------------------
Triple(d, m, sec) == <<Rat(d, 1), Rat(m, 1), Rat(sec, 1)>>

Fragment(lat, latRef, lon, lonRef) ==
    [GPSLatitude |-> lat, GPSLatitudeRef |-> latRef,
     GPSLongitude |-> lon, GPSLongitudeRef |-> lonRef]

GoodGps == Fragment(Present(Triple(41, 30, 0)), "N", Present(Triple(30, 0, 41)), "E")

FileGps ==
    {[raises |-> TRUE, data |-> EmptyGps]} \cup
    {[raises |-> FALSE, data |-> g] : g \in
       {EmptyGps,
        GoodGps,
        Fragment(Present(Triple(41, 30, 0)), "S", Present(Triple(30, 0, 41)), "absent"),
        Fragment(Present(Triple(41, 30, 0)), "N", Absent, "E"),
        Fragment(Present(<<Rat(0, 0), Rat(0, 0), Rat(0, 0)>>), "N",
                 Present(<<Rat(0, 0), Rat(0, 0), Rat(0, 0)>>), "E"),
        Fragment(Present(<<Rat(41, 1), TextComp, Rat(0, 1)>>), "N",
                 Present(Triple(30, 0, 41)), "E"),
        Fragment(Present(Triple(41, 30, 0)), "N",
                 Present(<<Rat(30, 1), Rat(0, 1)>>), "E")}}

ModelTagValues == {NoValue, StrValue(<<"X100">>)}

FileAnswers(names) ==
    [name : names, open : {"ok", "raise"}, getexif : {"ok", "empty", "raise"},
     tagread : {"ok", "raise"}, DateTimeOriginal : DateTagValues,
     DateTime : DateTagValues, Model : ModelTagValues, gps : FileGps,
     geocode : GeoReplies, copy : {"ok", "raise"}]

\* ---- create_document: list.sort(key=date_taken) -------------------------------
\* faulty variant: a record is placed before the records of the same date
RECURSIVE InsertByDate_before(_, _)
InsertByDate_before(x, s) ==
    IF s = <<>> THEN <<x>>
    ELSE IF ~LexLess(Head(s).date_taken, x.date_taken) THEN <<x>> \o s
    ELSE <<Head(s)>> \o InsertByDate_before(x, Tail(s))

\* x goes behind every record whose date is not later than its own
RECURSIVE InsertByDate(_, _)
InsertByDate(x, s) ==
    IF s = <<>> THEN <<x>>
    ELSE IF LexLess(x.date_taken, Head(s).date_taken) THEN <<x>> \o s
    ELSE <<Head(s)>> \o InsertByDate(x, Tail(s))

RECURSIVE SortByDate_unstable(_)
SortByDate_unstable(s) ==
    IF s = <<>> THEN <<>>
    ELSE InsertByDate_before(s[Len(s)], SortByDate_unstable(SubSeq(s, 1, Len(s) - 1)))

\* the stable sort of Python lists, by date_taken ascending
RECURSIVE SortByDate(_)
SortByDate(s) ==
    IF s = <<>> THEN <<>>
    ELSE InsertByDate(s[Len(s)], SortByDate(SubSeq(s, 1, Len(s) - 1)))

\* faulty variant: no pause after a row
RowEvents_none(info) == <<>>

\* time.sleep(0.5) at the end of the loop body of a row
RowEvents(info) == <<Ev("sleep", info.image)>>

\* ---- the folders of a run of main ----------------------------------------------
NameJpg == <<"a", ".", "j", "p", "g">>

NameHEIC == <<"b", ".", "H", "E", "I", "C">>

NamePng == <<"c", ".", "p", "n", "g">>

MainNames == {NameJpg, NameHEIC, NamePng}

BaseFile(n) ==
    [name |-> n, open |-> "ok", getexif |-> "ok", tagread |-> "ok",
     DateTimeOriginal |-> StrValue(MkDate(1, 1, ":")), DateTime |-> NoValue,
     Model |-> StrValue(<<"X100">>), gps |-> [raises |-> FALSE, data |-> GoodGps],
     geocode |-> [kind |-> "address", address |-> <<"ul. Lenina, 1">>],
     copy |-> "ok"]

NanGps ==
    Fragment(Present(<<Rat(0, 0), Rat(0, 0), Rat(0, 0)>>), "N",
             Present(<<Rat(0, 0), Rat(0, 0), Rat(0, 0)>>), "E")

\* the files of a run: one that gives a record with an address, and files
\* that differ from it in one answer
MainFilesNamed(n) ==
    LET b == BaseFile(n)
    IN  {[b EXCEPT !.DateTimeOriginal = StrValue(MkDate(1, d, ":")),
                   !.geocode = [kind |-> "timeout", address |-> <<>>]] :
           d \in 1..MaxDay}
        \cup
        {b,
         [b EXCEPT !.gps = [raises |-> FALSE, data |-> EmptyGps]],
         [b EXCEPT !.gps = [raises |-> FALSE, data |-> NanGps]],
         [b EXCEPT !.open = "raise"],
         [b EXCEPT !.getexif = "empty"],
         [b EXCEPT !.getexif = "raise"],
         [b EXCEPT !.DateTimeOriginal = NoValue],
         [b EXCEPT !.copy = "raise"]}

MainFiles == UNION {MainFilesNamed(n) : n \in MainNames}

\* os.listdir gives every name once
DistinctNames(entries) ==
    \A i, j \in 1..Len(entries) : i # j => entries[i].name # entries[j].name

Folders ==
    {[kind |-> "missing", entries |-> <<>>], [kind |-> "file", entries |-> <<>>]}
      \cup {[kind |-> "dir", entries |-> e] :
              e \in {q \in SeqsUpTo(MainFiles, MaxFiles) : DistinctNames(q)}}

\* ---- main -----------------------------------------------------------------------
Idle == [fn |-> "none"]

Init ==
    /\ pc = "start"
    /\ folder \in Folders
    /\ photos = <<>>
    /\ idx = 0
    /\ photo_info_list = <<>>
    /\ rows = <<>>
    /\ log = <<>>
    /\ call = Idle

\* os.path.exists / os.path.isdir: a missing path or a file ends the run
CheckPath ==
    /\ pc = "start"
    /\ pc' = IF folder.kind = "dir" THEN "list" ELSE "done"
    /\ UNCHANGED <<folder, photos, idx, photo_info_list, rows, log, call>>

\* the listing is filtered; no photo ends the run
ListPhotos ==
    /\ pc = "list"
    /\ photos' = SelectPhotos(folder.entries)
    /\ log' = log \o <<Ev("listdir", <<>>)>>
    /\ idx' = 1
    /\ pc' = IF photos' = <<>> THEN "done" ELSE "loop"
    /\ UNCHANGED <<folder, photo_info_list, rows, call>>

\* one iteration of "for photo in photos": an exception of
\* extract_image_info is caught nowhere and ends main
ProcessPhoto ==
    /\ pc = "loop"
    /\ idx <= Len(photos)
    /\ LET r == extract_image_info(photos[idx])
       IN  /\ log' = log \o r.events
           /\ photo_info_list' = IF r.outcome = "record"
                                 THEN Append(photo_info_list, r.info)
                                 ELSE photo_info_list
           /\ pc' = IF r.outcome = "raise" THEN "crashed"
                    ELSE IF idx = Len(photos) THEN "check" ELSE "loop"
           /\ idx' = IF r.outcome = "raise" THEN idx ELSE idx + 1
    /\ UNCHANGED <<folder, photos, rows, call>>

\* no record ends the run, otherwise create_document is called
CheckRecords ==
    /\ pc = "check"
    /\ pc' = IF photo_info_list = <<>> THEN "done" ELSE "sort"
    /\ UNCHANGED <<folder, photos, idx, photo_info_list, rows, log, call>>

\* create_document up to the header row: the list is sorted in place
SortPhotos ==
    /\ pc = "sort"
    /\ photo_info_list' = SortByDate(photo_info_list)
    /\ rows' = <<>>
    /\ pc' = "rows"
    /\ UNCHANGED <<folder, photos, idx, log, call>>

\* one iteration of "for i, info in enumerate(photos_info, 1)"
AddRow ==
    /\ pc = "rows"
    /\ Len(rows) < Len(photo_info_list)
    /\ LET info == photo_info_list[Len(rows) + 1]
       IN  /\ rows' = Append(rows, info)
           /\ log' = log \o RowEvents(info)
    /\ pc' = IF Len(rows') = Len(photo_info_list) THEN "save" ELSE "rows"
    /\ UNCHANGED <<folder, photos, idx, photo_info_list, call>>

\* doc.save(output_path)
SaveDocument ==
    /\ pc = "save"
    /\ log' = log \o <<Ev("save", <<>>)>>
    /\ pc' = "done"
    /\ UNCHANGED <<folder, photos, idx, photo_info_list, rows, call>>

Next ==
    \/ CheckPath
    \/ ListPhotos
    \/ ProcessPhoto
    \/ CheckRecords
    \/ SortPhotos
    \/ AddRow
    \/ SaveDocument

Spec == Init /\ [][Next]_vars

\* ---- single applications of the functions ---------------------------------------
\* call is the application under way: its function, argument and, once it
\* has returned, its result; the run of main does not start
InitCall(calls) ==
    /\ pc = "idle"
    /\ folder = [kind |-> "missing", entries |-> <<>>]
    /\ photos = <<>>
    /\ idx = 0
    /\ photo_info_list = <<>>
    /\ rows = <<>>
    /\ log = <<>>
    /\ call \in calls

Returned(fn) == call.fn = fn /\ call.done

\* get_gps_location(gps_data)
InitGps ==
    InitCall({[fn |-> "get_gps_location", arg |-> g, done |-> FALSE, ret |-> NoCoords] :
                g \in GpsFragments})

ApplyGps ==
    /\ call.fn = "get_gps_location"
    /\ ~call.done
    /\ call' = [call EXCEPT !.done = TRUE, !.ret = get_gps_location(call.arg)]
    /\ UNCHANGED <<pc, folder, photos, idx, photo_info_list, rows, log>>

SpecGps == InitGps /\ [][ApplyGps]_vars

\* get_address_from_coords(lat, lon)
InitAddr ==
    InitCall({[fn |-> "get_address_from_coords",
               arg |-> [lat |-> a, lon |-> o, reply |-> r],
               done |-> FALSE, ret |-> [text |-> <<>>, lookups |-> 0]] :
                a \in CoordFloats, o \in CoordFloats, r \in GeoReplies})

ApplyAddr ==
    /\ call.fn = "get_address_from_coords"
    /\ ~call.done
    /\ LET r == get_address_from_coords(call.arg.lat, call.arg.lon, call.arg.reply)
       IN  /\ call' = [call EXCEPT !.done = TRUE, !.ret = r]
           /\ log' = log \o [i \in 1..r.lookups |-> Ev("geocode", <<>>)]
    /\ UNCHANGED <<pc, folder, photos, idx, photo_info_list, rows>>

SpecAddr == InitAddr /\ [][ApplyAddr]_vars

\* extract_image_info(image_path)
InitExtract ==
    InitCall({[fn |-> "extract_image_info", arg |-> f, done |-> FALSE,
               ret |-> Ret("none", NoInfo, <<>>)] : f \in FileAnswers({NameJpg})})

ApplyExtract ==
    /\ call.fn = "extract_image_info"
    /\ ~call.done
    /\ LET r == extract_image_info(call.arg)
       IN  /\ call' = [call EXCEPT !.done = TRUE, !.ret = r]
           /\ log' = log \o r.events
    /\ UNCHANGED <<pc, folder, photos, idx, photo_info_list, rows>>

SpecExtract == InitExtract /\ [][ApplyExtract]_vars

\* the filter of the listing in main
Extensions ==
    {<<".", "j", "p", "g">>, <<".", "j", "p", "e", "g">>, <<".", "J", "P", "G">>,
     <<".", "J", "P", "E", "G">>, <<".", "h", "e", "i", "c">>,
     <<".", "H", "E", "I", "F">>, <<".", "h", "e", "i", "f">>,
     <<".", "H", "E", "I", "C">>, <<".", "J", "p", "g">>, <<".", "j", "P", "e", "G">>,
     <<".", "p", "n", "g">>, <<".", "j", "p", "g", ".", "b", "a", "k">>,
     <<"j", "p", "g">>, <<>>}

EnumNames == {<<"a">> \o e : e \in Extensions} \cup {<<"j", "p", "g">>, <<".", "J", "P", "G">>}

InitEnum ==
    InitCall({[fn |-> "listing", arg |-> l, done |-> FALSE, ret |-> <<>>] :
                l \in SeqsUpTo({[name |-> n] : n \in EnumNames}, MaxList)})

ApplyEnum ==
    /\ call.fn = "listing"
    /\ ~call.done
    /\ call' = [call EXCEPT !.done = TRUE, !.ret = SelectPhotos(call.arg)]
    /\ UNCHANGED <<pc, folder, photos, idx, photo_info_list, rows, log>>

SpecEnum == InitEnum /\ [][ApplyEnum]_vars

\* ---- properties -------------------------------------------------------------------
Million == 1000000

\* a (degrees, minutes, seconds) triple of finite numbers
WellFormed(v) ==
    /\ v.present
    /\ Len(v.val) = 3
    /\ \A i \in 1..3 : v.val[i].kind = "rat" /\ v.val[i].den = 1

Abs(n) == IF n < 0 THEN -n ELSE n

\* r is the 6-place decimal nearest to d + m/60 + s/3600: its whole degrees
\* are d plus the carry and the rest is within half a millionth of
\* (60 m + s) / 3600 = (60 m + s) * 2500 / (9 * 10^6)
NearestMicro(r, v) ==
    LET d == v.val[1].num
        m == v.val[2].num
        sec == v.val[3].num
        rest == r.num - d * Million
    IN  /\ ~r.nan
        /\ r.den = Million
        /\ 2 * Abs(9 * rest - 2500 * (60 * m + sec)) <= 9

\* C1: for a fragment whose GPSLatitude and GPSLongitude are well-formed
\* triples, get_gps_location returns the pair whose magnitudes are
\* degrees + minutes/60 + seconds/3600 rounded to 6 places, the latitude
\* negative unless the ref is "N", the longitude negative unless the ref is
\* "E"; (41, 30, 0) with "N" gives 41.5
C1_DmsConversion ==
    (/\ Returned("get_gps_location")
     /\ WellFormed(call.arg.GPSLatitude)
     /\ WellFormed(call.arg.GPSLongitude))
    => /\ ~call.ret.none
       /\ NearestMicro(call.ret.lat, call.arg.GPSLatitude)
       /\ NearestMicro(call.ret.lon, call.arg.GPSLongitude)
       /\ call.ret.lat.neg = (call.arg.GPSLatitudeRef # "N")
       /\ call.ret.lon.neg = (call.arg.GPSLongitudeRef # "E")
       /\ (call.arg.GPSLatitude.val = Triple(41, 30, 0) /\ call.arg.GPSLatitudeRef = "N")
            => call.ret.lat = Float(FALSE, 41500000, Million)

C1_Witness ==
    /\ Returned("get_gps_location")
    /\ call.arg.GPSLatitude = Present(Triple(41, 30, 0))
    /\ call.arg.GPSLatitudeRef = "N"
    /\ call.arg.GPSLongitude = Present(Triple(30, 0, 41))
    /\ call.arg.GPSLongitudeRef = "absent"
    /\ call.ret.lat = Float(FALSE, 41500000, Million)
    /\ call.ret.lon = Float(TRUE, 30011389, Million)

RECURSIVE DigitsValue(_)
DigitsValue(t) ==
    IF t = <<>> THEN 0
    ELSE 10 * DigitsValue(SubSeq(t, 1, Len(t) - 1)) + DigitVal(t[Len(t)])

\* t reads as x with exactly six decimals: an optional "-", digits, ".", six
\* digits (or "nan")
ReadsAsFixed6(t, x) ==
    IF x.nan THEN t = <<"n", "a", "n">>
    ELSE LET signed == t # <<>> /\ t[1] = "-"
             body == IF signed THEN Tail(t) ELSE t
             n == Len(body)
         IN  /\ signed = x.neg
             /\ n >= 8
             /\ body[n - 6] = "."
             /\ \A i \in (1..n) \ {n - 6} : IsDigit(body[i])
             /\ x.den = Million
             /\ DigitsValue(SubSeq(body, 1, n - 7)) * Million
                  + DigitsValue(SubSeq(body, n - 5, n)) = x.num

ReadsAsPair(t, lat, lon) ==
    \E k \in 1..Len(t) :
        /\ k + 1 <= Len(t)
        /\ t[k] = ","
        /\ t[k + 1] = " "
        /\ ReadsAsFixed6(SubSeq(t, 1, k - 1), lat)
        /\ ReadsAsFixed6(SubSeq(t, k + 2, Len(t)), lon)

Count(events, op) == Cardinality({i \in 1..Len(events) : events[i].op = op})

\* C5: get_address_from_coords returns a string for every pair and every
\* answer of the service: the service's address when there is one, the pair
\* written with six decimals and ", " between when the call times out, fails
\* or has no result; the service is called once
C5_AddressOrPair ==
    Returned("get_address_from_coords")
    => /\ call.arg.reply.kind = "address" => call.ret.text = call.arg.reply.address
       /\ call.arg.reply.kind # "address"
            => ReadsAsPair(call.ret.text, call.arg.lat, call.arg.lon)
       /\ call.ret.lookups = 1
       /\ Count(log, "geocode") = 1

C5_Witness ==
    /\ Returned("get_address_from_coords")
    /\ call.arg.reply.kind = "none"
    /\ call.arg.lat = Float(FALSE, 41500000, Million)
    /\ call.arg.lon = Float(TRUE, 30011389, Million)
    /\ call.ret.text = <<"4", "1", ".", "5", "0", "0", "0", "0", "0", ",", " ",
                         "-", "3", "0", ".", "0", "1", "1", "3", "8", "9">>

\* the tags of the file of the call were read: the image opened, getexif
\* gave a non-empty directory and the loop over its tags finished
TagsRead(file) == file.open = "ok" /\ file.getexif = "ok" /\ file.tagread = "ok"

IsPresent(value) == value.kind # "absent"

NonEmpty(value) == value.kind # "absent" /\ value.text # <<>>

Unconvertible(v) ==
    \/ Len(v.val) # 3
    \/ \E i \in 1..Len(v.val) : v.val[i].kind # "rat" \/ v.val[i].den = 0

NoUsableGps(g) ==
    \/ ~g.GPSLatitude.present
    \/ ~g.GPSLongitude.present
    \/ Unconvertible(g.GPSLatitude)
    \/ Unconvertible(g.GPSLongitude)

\* C4: missing or malformed GPS data is never fatal: for such a fragment
\* get_gps_location gives None, and a file with EXIF and a parseable date
\* still gives a record, with the "coordinates unavailable" address and
\* without a call of the geocoding service.  The files taken are those whose
\* picture can be copied, so that no failure outside the GPS data is involved
C4_GpsNeverFatal ==
    (/\ Returned("extract_image_info")
     /\ TagsRead(call.arg)
     /\ call.arg.copy = "ok"
     /\ strptime(SelectDateStr(ExifData(call.arg))).ok
     /\ NoUsableGps(GpsData(call.arg)))
    => /\ get_gps_location(GpsData(call.arg)).none
       /\ call.ret.outcome = "record"
       /\ call.ret.info.address = COORDS_UNAVAILABLE
       /\ Count(log, "geocode") = 0

\* C2: every failure while a file is processed makes extract_image_info
\* return None (or a record): no exception leaves it, and main goes on to
\* the remaining files of the batch
C2_ErrorsSkipFile ==
    /\ Returned("extract_image_info") => call.ret.outcome \in {"none", "record"}
    /\ pc # "crashed"

\* a suffix compared without regard to case
EndsWithFolded(name, suffix) ==
    /\ Len(suffix) <= Len(name)
    /\ Upper(Tail_n(name, Len(suffix))) = Upper(suffix)

Kept(entries, Accepts(_)) == {e \in Range(entries) : Accepts(e.name)}

ListedAsSpelled(name) ==
    \E i \in 1..Len(SUPPORTED_FORMATS) : EndsWith(name, SUPPORTED_FORMATS[i])

ListedFolded(name) ==
    \E i \in 1..Len(SUPPORTED_FORMATS) : EndsWithFolded(name, SUPPORTED_FORMATS[i])

\* C8 as stated: a file is enumerated if and only if its name ends with one
\* of the seven suffixes as they are spelled
C8_CaseSensitive ==
    Returned("listing") => Range(call.ret) = Kept(call.arg, ListedAsSpelled)

\* C8 (amended): a file is enumerated if and only if its name ends with one
\* of the listed suffixes compared without regard to case, so names ending
\* in .HEIC or .Jpg are accepted; the enumeration keeps the listing's order
C8_CaseInsensitive ==
    Returned("listing")
    => /\ Range(call.ret) = Kept(call.arg, ListedFolded)
       /\ \A i, j \in 1..Len(call.ret) :
            i < j => \E k, l \in 1..Len(call.arg) :
                        k < l /\ call.arg[k] = call.ret[i] /\ call.arg[l] = call.ret[j]

C8_Witness ==
    /\ Returned("listing")
    /\ call.arg = <<[name |-> <<"a", ".", "p", "n", "g">>],
                    [name |-> <<"a", ".", "H", "E", "I", "C">>]>>
    /\ call.ret = <<[name |-> <<"a", ".", "H", "E", "I", "C">>]>>

\* ---- properties of a run of main --------------------------------------------------
Ended == pc \in {"done", "crashed"}

\* the place of a picture in the enumeration
PhotoIndex(image) == CHOOSE i \in 1..Len(photos) : photos[i].name = image

\* C9: the rows are in non-decreasing order of capture timestamp, and rows
\* with the same timestamp are in the order in which their files were
\* enumerated and processed
C9_RowsStableByDate ==
    \A i, j \in 1..Len(rows) :
        i < j => /\ ~LexLess(rows[j].date_taken, rows[i].date_taken)
                 /\ rows[i].date_taken = rows[j].date_taken
                      => PhotoIndex(rows[i].image) < PhotoIndex(rows[j].image)

C9_Witness ==
    /\ pc = "done"
    /\ Len(rows) = 2
    /\ rows[1].date_taken = rows[2].date_taken
    /\ rows[1].address # rows[2].address

\* C10 as stated: between any two consecutive reverse-geocoding calls a
\* delay step is taken
C10_DelayBetweenLookups ==
    \A i, j \in 1..Len(log) :
        (i < j /\ log[i].op = "geocode" /\ log[j].op = "geocode")
        => \E k \in (i + 1)..(j - 1) : log[k].op = "sleep"

LookupsFor(image) ==
    Cardinality({i \in 1..Len(log) : log[i] = Ev("geocode", image)})

\* C10 (amended): each record with GPS coordinates has triggered one
\* reverse-geocoding call and no file more than one; the fixed delay is
\* taken by create_document once per rendered row, after every
\* reverse-geocoding call of the run, so that no delay lies between two calls
C10_DelayAfterLookups ==
    /\ \A i \in 1..Len(photo_info_list) :
          LookupsFor(photo_info_list[i].image) =
            IF photo_info_list[i].address = COORDS_UNAVAILABLE THEN 0 ELSE 1
    /\ \A i \in 1..Len(photos) : LookupsFor(photos[i].name) <= 1
    /\ Count(log, "sleep") = Len(rows)
    /\ \A i, j \in 1..Len(log) :
          (i < j /\ log[i].op = "sleep") => log[j].op # "geocode"

C10_Witness ==
    /\ pc = "done"
    /\ Count(log, "geocode") = 2
    /\ Count(log, "sleep") = 2
    /\ Count(log, "save") = 1

\* a file that can be opened, has a non-empty EXIF directory and a capture
\* date that parses
Usable(file) ==
    /\ file.open = "ok"
    /\ file.getexif = "ok"
    /\ Truthy(SelectDateStr(ExifData(file)))
    /\ strptime(SelectDateStr(ExifData(file))).ok

Enumerated == SelectPhotos(folder.entries)

\* C3: when main has ended, the record list holds exactly one record for
\* each enumerated file that can be opened, has EXIF and a parseable date,
\* and none for any other file
C3_RecordPerUsableFile ==
    (Ended /\ folder.kind = "dir")
    => /\ {photo_info_list[i].image : i \in 1..Len(photo_info_list)}
            = {f.name : f \in {g \in Range(Enumerated) : Usable(g)}}
       /\ Len(photo_info_list) = Cardinality({g \in Range(Enumerated) : Usable(g)})

\* C7: the document is written if and only if the path is a directory with
\* a supported file of which at least one yields a record, and then once;
\* for a missing path or a path that is no directory nothing is enumerated
\* or opened
C7_WrittenIffRecords ==
    /\ Count(log, "save") <= 1
    /\ folder.kind # "dir" => log = <<>>
    /\ Ended => (Count(log, "save") = 1
                   <=> /\ folder.kind = "dir"
                       /\ \E f \in Range(Enumerated) :
                             extract_image_info(f).outcome = "record")

====
